---- MODULE Spec2Model ----
(***************************************************************************)
(* Model of the trendbit-cleaner normalisation pipeline: the scalar        *)
(* coercion helpers (to_int, parse_timestamp), the tag joiners and the     *)
(* three batch entry points clean_instagram_items, clean_tiktok_items and  *)
(* clean_reddit_items, as the pandas code of src/ computes them.           *)
(*                                                                         *)
(* Representation.  A Python str is a sequence of one-character strings.   *)
(* A cell of a DataFrame is one of                                         *)
(*     NA          None / NaN / NaT (pd.isna is true of all three)         *)
(*     Str(s)      a str                                                   *)
(*     Num(n)      a number that fits 32 bits                              *)
(*     Kilo(k)     the number 1000*k (epoch milliseconds exceed 32 bits)   *)
(*     Ts(t)       a pandas Timestamp, t seconds after the epoch, UTC      *)
(* A raw item is a function from the keys the dict carries to cells; a key *)
(* the dict lacks is not in its DOMAIN.  A float of an output record is a  *)
(* fraction Frac(n, d); None in an output record is the value None.        *)
(***************************************************************************)
EXTENDS Integers, Sequences, FiniteSets, TLC

VARIABLES
    pc,        \* "idle" | "called" | "done" | "raised": position of the one call in flight
    platform,  \* which entry point was called: "instagram" | "tiktok" | "reddit"
    items,     \* the call's input batch: a sequence of raw items
    category,  \* the call's category label
    now_utc,   \* the reference instant the call read from the wall clock
    rows,      \* the records the call returned (to_dict(orient="records"))
    vals,      \* tag joiner call: the values handed to it
    joined,    \* tag joiner call: [tags |-> list before the join, text |-> joined str]
    arg,       \* coercion helper call: the scalar handed to it
    result     \* coercion helper call: [fn |-> helper, value |-> what it returned]

vars == <<pc, platform, items, category, now_utc, rows, vals, joined, arg, result>>

----------------------------------------------------------------------------
(* Cells *)

NA == [na |-> TRUE]
Absent == [absent |-> TRUE]
None == [none |-> TRUE]
Str(s) == [str |-> s]
Num(n) == [int |-> n]
Kilo(k) == [kilo |-> k]
Ts(t) == [ts |-> t]

IsStr(x) == DOMAIN x = {"str"}
IsNum(x) == DOMAIN x = {"int"}
IsKilo(x) == DOMAIN x = {"kilo"}
IsTs(x) == DOMAIN x = {"ts"}

\* pd.isna(x) / pd.notna(x)
isna(x) == x = NA
notna(x) == x # NA

\* Series.fillna(v)
fillna(x, v) == IF isna(x) THEN v ELSE x

----------------------------------------------------------------------------
(* Python str operations on character sequences *)

Whitespace == {" ", "\n", "\t"}

UpperLetters == <<"A","B","C","D","E","F","G","H","I","J","K","L","M",
                  "N","O","P","Q","R","S","T","U","V","W","X","Y","Z">>
LowerLetters == <<"a","b","c","d","e","f","g","h","i","j","k","l","m",
                  "n","o","p","q","r","s","t","u","v","w","x","y","z">>
DigitChars == <<"0","1","2","3","4","5","6","7","8","9">>

IsDigit(c) == \E i \in 1..10 : DigitChars[i] = c
DigitVal(c) == (CHOOSE i \in 1..10 : DigitChars[i] = c) - 1

\* str.lower(), one character
LowerChar(c) ==
    IF \E i \in 1..26 : UpperLetters[i] = c
    THEN LowerLetters[CHOOSE i \in 1..26 : UpperLetters[i] = c]
    ELSE c

\* str.lower()
lower(s) == [i \in 1..Len(s) |-> LowerChar(s[i])]

RECURSIVE lstrip_ws(_)
lstrip_ws(s) ==
    IF s # <<>> /\ Head(s) \in Whitespace THEN lstrip_ws(Tail(s)) ELSE s

RECURSIVE rstrip_ws(_)
rstrip_ws(s) ==
    IF s # <<>> /\ s[Len(s)] \in Whitespace
    THEN rstrip_ws(SubSeq(s, 1, Len(s) - 1))
    ELSE s

\* str.strip()
strip(s) == rstrip_ws(lstrip_ws(s))

\* str.lstrip(c) with a one-character argument: every leading c goes
RECURSIVE lstrip(_, _)
lstrip(s, c) ==
    IF s # <<>> /\ Head(s) = c THEN lstrip(Tail(s), c) ELSE s

\* str.replace(c, ""): every occurrence of c goes
remove_char(s, c) == SelectSeq(s, LAMBDA ch : ch # c)

\* sep.join(list)
RECURSIVE join(_, _)
join(sep, list) ==
    IF list = <<>> THEN <<>>
    ELSE IF Len(list) = 1 THEN list[1]
    ELSE list[1] \o sep \o join(sep, Tail(list))

----------------------------------------------------------------------------
(* float(str) and int(float(x)) *)

RECURSIVE digits_value(_)
digits_value(s) ==
    IF s = <<>> THEN 0
    ELSE 10 * digits_value(SubSeq(s, 1, Len(s) - 1)) + DigitVal(s[Len(s)])

\* float(s) for the decimal notation [ws][sign]digits[.digits][ws]; ok is
\* FALSE where float raises ValueError.  ip is the value truncated toward
\* zero, frac whether a non-zero fraction follows.  The exponent, inf, nan
\* and underscore notations of float are outside the inputs drawn here.
\* The stages: the digits around the point, ...
float_parts(ipart, fpart, neg, one_point) ==
    IF /\ one_point
       /\ \A i \in 1..Len(ipart) : IsDigit(ipart[i])
       /\ \A i \in 1..Len(fpart) : IsDigit(fpart[i])
       /\ Len(ipart) + Len(fpart) >= 1
    THEN [ok |-> TRUE,
          ip |-> IF neg THEN 0 - digits_value(ipart) ELSE digits_value(ipart),
          frac |-> \E i \in 1..Len(fpart) : fpart[i] # "0",
          neg |-> neg]
    ELSE [ok |-> FALSE, ip |-> 0, frac |-> FALSE, neg |-> FALSE]

\* ... the text after the sign, split at its decimal point `dots`, ...
float_body(body, neg, dots) ==
    IF dots = {} THEN float_parts(body, <<>>, neg, TRUE)
    ELSE float_parts(SubSeq(body, 1, (CHOOSE i \in dots : TRUE) - 1),
                     SubSeq(body, (CHOOSE i \in dots : TRUE) + 1, Len(body)),
                     neg, Cardinality(dots) <= 1)

\* ... the text after the sign, ...
float_unsigned(body, neg) == float_body(body, neg, {i \in 1..Len(body) : body[i] = "."})

\* ... the trimmed text with its optional sign
float_stripped(t) ==
    IF t # <<>> /\ Head(t) \in {"+", "-"}
    THEN float_unsigned(Tail(t), Head(t) = "-")
    ELSE float_unsigned(t, FALSE)

parse_float(s) == float_stripped(strip(s))

\* Variant of int_of_float that returns 0 where float raised
int_of_float_zero(f) == IF f.ok THEN Num(f.ip) ELSE Num(0)

\* int(float(x)) of a parsed float: NaN where float raised
int_of_float(f) == IF f.ok THEN Num(f.ip) ELSE NA

\* to_int(x): NaN when x is missing or int(float(x)) raises, else the integer
to_int(x) ==
    IF isna(x) THEN NA
    ELSE IF IsStr(x) THEN int_of_float(parse_float(remove_char(x.str, ",")))
    ELSE IF IsNum(x) THEN x
    ELSE IF IsKilo(x) THEN x
    ELSE NA

----------------------------------------------------------------------------
(* Instants: whole seconds after 1970-01-01T00:00:00Z.  pandas keeps        *)
(* nanoseconds; the sub-second part is dropped here, which moves            *)
(* hours_since_post by less than 1/3600.                                    *)


\* (year, month, day) of the day `z` days after the epoch (proleptic Gregorian)
civil_from_days(z) ==
    LET zz == z + 719468
        era == zz \div 146097
        doe == zz - era * 146097
        yoe == (doe - doe \div 1460 + doe \div 36524 - doe \div 146096) \div 365
        doy == doe - (365 * yoe + yoe \div 4 - yoe \div 100)
        mp == (5 * doy + 2) \div 153
        d == doy - (153 * mp + 2) \div 5 + 1
        m == IF mp < 10 THEN mp + 3 ELSE mp - 9
    IN  [y |-> yoe + era * 400 + (IF m <= 2 THEN 1 ELSE 0), m |-> m, d |-> d]

\* days after the epoch of the civil date y-m-d
days_from_civil(y, m, d) ==
    LET yy == IF m <= 2 THEN y - 1 ELSE y
        era == yy \div 400
        yoe == yy - era * 400
        doy == (153 * (IF m > 2 THEN m - 3 ELSE m + 9) + 2) \div 5 + d - 1
        doe == yoe * 365 + yoe \div 4 - yoe \div 100 + doy
    IN  era * 146097 + doe - 719468

IsLeap(y) == (y % 4 = 0 /\ y % 100 # 0) \/ y % 400 = 0
DaysInMonth(y, m) ==
    IF m = 2 THEN (IF IsLeap(y) THEN 29 ELSE 28)
    ELSE IF m \in {4, 6, 9, 11} THEN 30 ELSE 31

\* n written with w digits, zero padded
pad(n, w) == [i \in 1..w |-> DigitChars[((n \div (10 ^ (w - i))) % 10) + 1]]

\* the civil date c and the second of the day sod, written %Y-%m-%dT%H:%M:%SZ
format_instant(c, sod) ==
    pad(c.y, 4) \o <<"-">> \o pad(c.m, 2) \o <<"-">> \o pad(c.d, 2) \o <<"T">>
    \o pad(sod \div 3600, 2) \o <<":">> \o pad((sod % 3600) \div 60, 2)
    \o <<":">> \o pad(sod % 60, 2) \o <<"Z">>

\* Timestamp.strftime("%Y-%m-%dT%H:%M:%SZ")
strftime(t) == format_instant(civil_from_days(t \div 86400), t % 86400)

\* The shape YYYY-MM-DDTHH:MM:SSZ
IsIsoShape(s) ==
    /\ Len(s) = 20
    /\ s[5] = "-" /\ s[8] = "-" /\ s[11] = "T" /\ s[14] = ":" /\ s[17] = ":"
    /\ s[20] = "Z"
    /\ \A i \in {1,2,3,4,6,7,9,10,12,13,15,16,18,19} : IsDigit(s[i])

\* The instant of the fields of a date string, NaT when they name no date
instant_of(y, m, d, hh, mi, ss) ==
    IF /\ m \in 1..12 /\ d >= 1 /\ d <= DaysInMonth(y, m)
       /\ hh <= 23 /\ mi <= 59 /\ ss <= 59
    THEN Ts(days_from_civil(y, m, d) * 86400 + hh * 3600 + mi * 60 + ss)
    ELSE NA

\* pd.to_datetime(s, utc=True, errors="coerce") of a str: the instant of an
\* ISO-8601 UTC string of the shape above, NaT for a string that is no date.
\* (dateutil accepts more notations; none of them is drawn here.)
to_datetime_str(s) ==
    IF ~IsIsoShape(s) THEN NA
    ELSE instant_of(digits_value(SubSeq(s, 1, 4)), digits_value(SubSeq(s, 6, 7)),
                    digits_value(SubSeq(s, 9, 10)), digits_value(SubSeq(s, 12, 13)),
                    digits_value(SubSeq(s, 15, 16)), digits_value(SubSeq(s, 18, 19)))

\* 1e9 (seconds heuristic) and 1e12/1000 (milliseconds heuristic, in Kilo units)
EpochSecondsThreshold == 1000000000
EpochMillisThresholdKilo == 1000000000

\* parse_timestamp of a str s, f being float(s): lines 36-45
parse_timestamp_str(s, f) ==
    IF f.ok /\ (f.ip > EpochSecondsThreshold
                \/ (f.ip = EpochSecondsThreshold /\ f.frac /\ ~f.neg))
    THEN Ts(f.ip)                                                        \* unit="s"
    ELSE to_datetime_str(s)

\* parse_timestamp(x)
parse_timestamp(x) ==
    IF isna(x) THEN NA
    ELSE IF IsKilo(x) THEN
        \* xv = 1000*k
        IF x.kilo > EpochMillisThresholdKilo THEN Ts(x.kilo)             \* unit="ms"
        ELSE IF x.kilo > EpochSecondsThreshold \div 1000 THEN           \* unit="s"
            \* Timestamp.max is 9223372036 s: beyond it errors="coerce" gives NaT
            (IF x.kilo > 9223372 THEN NA ELSE Ts(1000 * x.kilo))
        ELSE Ts((1000 * x.kilo) \div (10 ^ 9))                     \* nanoseconds
    ELSE IF IsNum(x) THEN
        IF x.int > EpochSecondsThreshold THEN Ts(x.int)                  \* unit="s"
        ELSE Ts(x.int \div (10 ^ 9))                               \* nanoseconds
    ELSE IF IsStr(x) THEN parse_timestamp_str(x.str, parse_float(x.str))
    ELSE x

----------------------------------------------------------------------------
(* Tag joiners *)

\* str(int): decimal digits, "-" first when negative
RECURSIVE nat_str(_)
nat_str(n) ==
    IF n < 10 THEN <<DigitChars[n + 1]>>
    ELSE nat_str(n \div 10) \o <<DigitChars[(n % 10) + 1]>>

\* str(v) of a cell; str(nan) is "nan"
py_str(v) ==
    IF IsStr(v) THEN v.str
    ELSE IF IsNum(v) THEN (IF v.int < 0 THEN <<"-">> \o nat_str(0 - v.int) ELSE nat_str(v.int))
    ELSE <<"n", "a", "n">>

\* norm_str(x): "" for None and NaN, else str(x).strip()
norm_str(x) == IF isna(x) THEN <<>> ELSE strip(py_str(x))

\* Variant of strip_hashes that removes one leading "#" only
strip_one_hash(s) == IF s # <<>> /\ Head(s) = "#" THEN Tail(s) ELSE s

\* s.lstrip("#") as the joiners call it
strip_hashes(s) == lstrip(s, "#")

\* Variant of dedup_ci whose seen set holds the tags as written, not lower-cased
dedup_case_sensitive(tags) ==
    LET out[i \in 0..Len(tags)] ==
            IF i = 0 THEN <<>>
            ELSE IF \E j \in 1..Len(out[i - 1]) : out[i - 1][j] = tags[i]
                 THEN out[i - 1]
                 ELSE Append(out[i - 1], tags[i])
    IN  out[Len(tags)]

\* "unique while preserving order (case-insensitive)": the loop over tags
\* with seen = the lower-cased tags already in out
dedup_ci(tags) ==
    LET out[i \in 0..Len(tags)] ==
            IF i = 0 THEN <<>>
            ELSE IF \E j \in 1..Len(out[i - 1]) : lower(out[i - 1][j]) = lower(tags[i])
                 THEN out[i - 1]
                 ELSE Append(out[i - 1], tags[i])
    IN  out[Len(tags)]

CommaSpace == <<",", " ">>

\* What a joiner call leaves: the list `out` and the str it returns
joined_of(fn, strip_hash, out) ==
    [fn |-> fn, strip_hash |-> strip_hash, tags |-> out, text |-> join(CommaSpace, out)]

\* join_hashtags(row, hashtag_cols); values = <<row.get(c) : c in hashtag_cols>>
join_hashtags(values) ==
    LET kept == SelectSeq(values, LAMBDA v : notna(v) /\ strip(py_str(v)) # <<>>)
        tags == [i \in 1..Len(kept) |-> strip_hashes(strip(py_str(kept[i])))]
    IN  dedup_ci(tags)

\* join_list_fields(row, cols, strip_hash)
join_list_fields(values, strip_hash) ==
    LET kept == SelectSeq(values, LAMBDA v : notna(v) /\ strip(py_str(v)) # <<>>)
        tags == [i \in 1..Len(kept) |->
                    IF strip_hash THEN strip_hashes(strip(py_str(kept[i])))
                    ELSE strip(py_str(kept[i]))]
    IN  dedup_ci(tags)

\* join_tags(*vals)
join_tags(values) ==
    LET kept == SelectSeq(values, LAMBDA v : norm_str(v) # <<>>)
        tags == [i \in 1..Len(kept) |-> strip_hashes(norm_str(kept[i]))]
    IN  dedup_ci(tags)

----------------------------------------------------------------------------
(* Floats of the output, as fractions n/d with d > 0; NaN is NA *)

Frac(n, d) == [n |-> n, d |-> d]
PosInf == [inf |-> 1]
NegInf == [inf |-> -1]
IsFrac(x) == DOMAIN x = {"n", "d"}

\* a / b of two float Series, element by element (numpy: x/0 is +-inf, 0/0 NaN)
fdiv(a, b) ==
    IF isna(a) \/ isna(b) THEN NA
    ELSE IF b.n = 0 THEN (IF a.n = 0 THEN NA ELSE IF a.n > 0 THEN PosInf ELSE NegInf)
    ELSE IF b.n > 0 THEN Frac(a.n * b.d, a.d * b.n)
    ELSE Frac(0 - a.n * b.d, a.d * (0 - b.n))

\* Series.clip(lower=lo): NaN stays NaN
clip_lower(h, lo) ==
    IF isna(h) THEN NA
    ELSE IF h.n * lo.d < lo.n * h.d THEN lo ELSE h

\* the floor 0.01 of hours_since_post
HoursFloor == Frac(1, 100)
SecondsPerHour == 3600

\* (now_utc - ts).dt.total_seconds() / 3600, NaN where ts is NaT
hours_between(now, ts) ==
    IF isna(ts) THEN NA ELSE Frac(now - ts.ts, SecondsPerHour)

\* ts.dt.strftime("%Y-%m-%dT%H:%M:%SZ"): NaN where ts is NaT
dt_strftime(ts) == IF isna(ts) THEN NA ELSE Str(strftime(ts.ts))

----------------------------------------------------------------------------
(* DataFrames: pd.DataFrame(items) *)

\* df.columns, as a set
Columns(df) == UNION {DOMAIN df[i] : i \in 1..Len(df)}

\* df.empty: no rows, or no columns (every item is {})
df_empty(df) == Len(df) = 0 \/ Columns(df) = {}

\* df[c] at row i: NaN where the item lacks the key
cell(df, i, c) == IF c \in DOMAIN df[i] THEN df[i][c] ELSE NA

\* df.get(c, pd.Series([default] * len(df))) at row i
df_get(df, i, c, default) == IF c \in Columns(df) THEN cell(df, i, c) ELSE default

\* Variant of drop_duplicates that keeps the last record of each url
drop_duplicates_keep_last(recs) ==
    LET keep == {i \in 1..Len(recs) :
                    \A j \in (i + 1)..Len(recs) : recs[j].url # recs[i].url}
        pick[i \in 0..Len(recs)] ==
            IF i = 0 THEN <<>>
            ELSE IF i \in keep THEN Append(pick[i - 1], recs[i]) ELSE pick[i - 1]
    IN  pick[Len(recs)]

\* DataFrame.drop_duplicates(subset=["url"], keep="first")
drop_duplicates(recs) ==
    LET keep == {i \in 1..Len(recs) : \A j \in 1..(i - 1) : recs[j].url # recs[i].url}
        pick[i \in 0..Len(recs)] ==
            IF i = 0 THEN <<>>
            ELSE IF i \in keep THEN Append(pick[i - 1], recs[i]) ELSE pick[i - 1]
    IN  pick[Len(recs)]

\* DataFrame.replace({np.nan: None, pd.NaT: None}) on one cell
nan_to_none(x) == IF isna(x) THEN None ELSE x

----------------------------------------------------------------------------
(* Instagram: clean_instagram_items *)

IgPlayCols == <<"videoPlayCount", "igPlayCount", "fbPlayCount">>
IgHashtagCols == <<"hashtags/0", "hashtags/1">>

\* df.get("url", df.get("displayUrl", df.get("videoUrl", Series([None]*n))))
ig_url(df, i) ==
    df_get(df, i, "url", df_get(df, i, "displayUrl", df_get(df, i, "videoUrl", NA)))

\* the first of videoPlayCount, igPlayCount, fbPlayCount that is a column;
\* to_int of it, else 0; then fillna(0)
ig_plays(df, i) ==
    LET present == SelectSeq(IgPlayCols, LAMBDA c : c \in Columns(df))
    IN  IF present = <<>> THEN Num(0)
        ELSE fillna(to_int(cell(df, i, present[1])), Num(0))

\* ts = df.get("timestamp", ...).apply(parse_timestamp)
ig_ts(df, i) == parse_timestamp(df_get(df, i, "timestamp", NA))

\* hashtag_cols = [c for c in df.columns if c.startswith("hashtags/")]
\* (an item carries hashtags/1 only with hashtags/0, so the column order is fixed)
ig_hashtags(df, i) ==
    LET hashtag_cols == SelectSeq(IgHashtagCols, LAMBDA c : c \in Columns(df))
    IN  IF hashtag_cols = <<>> THEN <<>>
        ELSE join(CommaSpace,
                  join_hashtags([k \in 1..Len(hashtag_cols) |-> cell(df, i, hashtag_cols[k])]))

\* plays.replace(0, 1)
denom_of(plays) == IF plays.int = 0 THEN 1 ELSE plays.int

\* (likes + 2*comments + 3*shares + 2*saves + upvotes) / denom
engagement_score_of(likes, comments, shares, saves, upvotes, denom) ==
    fdiv(Frac(likes + 2 * comments + 3 * shares + 2 * saves + upvotes, 1), Frac(denom, 1))

\* total_eng / hours_since_post
velocity_of(likes, comments, shares, saves, upvotes, hours) ==
    fdiv(Frac(likes + comments + shares + saves + upvotes, 1), hours)

\* One row of the `clean` frame: the resolved columns and, from the counts,
\* engagement_score.fillna(0) and velocity.fillna(0)
clean_row(platform_name, caption, text, hashtags, creator, creator_fullname, creator_followers, timestamp, url, likes, comments, shares, plays, saves, upvotes, hours, audio_name, cat) ==
    [platform |-> platform_name,
     caption |-> caption,
     text |-> text,
     hashtags |-> hashtags,
     creator |-> creator,
     creator_fullname |-> creator_fullname,
     creator_followers |-> creator_followers,
     timestamp |-> timestamp,
     url |-> url,
     likes |-> Num(likes),
     comments |-> Num(comments),
     shares |-> Num(shares),
     plays |-> Num(plays),
     saves |-> Num(saves),
     upvotes |-> Num(upvotes),
     engagement_score |->
         fillna(engagement_score_of(likes, comments, shares, saves, upvotes,
                                    denom_of(Num(plays))), Frac(0, 1)),
     hours_since_post |-> hours,
     velocity |-> fillna(velocity_of(likes, comments, shares, saves, upvotes, hours),
                         Frac(0, 1)),
     audio_name |-> audio_name,
     category |-> cat]

\* row i of the `clean` frame built at lines 120-141
ig_row(df, i, cat, now) ==
    clean_row("instagram",
              fillna(df_get(df, i, "caption", NA), Str(<<>>)),
              fillna(df_get(df, i, "caption", NA), Str(<<>>)),
              Str(ig_hashtags(df, i)),
              fillna(df_get(df, i, "ownerUsername", NA), Str(<<>>)),
              fillna(df_get(df, i, "ownerFullName", NA), Str(<<>>)),
              NA,
              fillna(dt_strftime(ig_ts(df, i)), Str(<<>>)),
              fillna(ig_url(df, i), Str(<<>>)),
              fillna(to_int(df_get(df, i, "likesCount", NA)), Num(0)).int,
              fillna(to_int(df_get(df, i, "commentsCount", NA)), Num(0)).int,
              fillna(to_int(df_get(df, i, "reshareCount", Num(0))), Num(0)).int,
              ig_plays(df, i).int,
              0,
              0,
              clip_lower(fillna(hours_between(now, ig_ts(df, i)), Frac(0, 1)), HoursFloor),
              fillna(df_get(df, i, "musicInfo/song_name", NA), Str(<<>>)),
              cat)

\* lines 152-154: creator_followers to 0, hours_since_post.fillna(0), NaN to None
ig_finalize(r) ==
    LET r1 == [r EXCEPT !.creator_followers = fillna(@, Num(0)),
                        !.hours_since_post = fillna(@, Frac(0, 1))]
    IN  [f \in DOMAIN r1 |-> IF f \in {"platform", "category"} THEN r1[f]
                             ELSE nan_to_none(r1[f])]

\* now_utc - ts raises TypeError when every parsed timestamp is NaT: apply()
\* then yields a tz-naive datetime64 column, and pandas refuses to subtract a
\* tz-naive column from the tz-aware now_utc
ig_raises(df) == \A i \in 1..Len(df) : isna(ig_ts(df, i))

\* lines 152-154 on every record of the frame
ig_finalize_all(recs) == [i \in 1..Len(recs) |-> ig_finalize(recs[i])]

\* clean_instagram_items(items, category), given the instant datetime.now returned
clean_instagram_items(its, cat, now) ==
    IF df_empty(its) THEN <<>>
    ELSE ig_finalize_all(drop_duplicates([i \in 1..Len(its) |-> ig_row(its, i, cat, now)]))

----------------------------------------------------------------------------
(* TikTok: clean_tiktok_df, clean_tiktok_items *)

TkHashtagCols == <<"hashtags/0/name", "hashtags/1/name">>

\* Series.astype(str) on one cell
astype_str(x) == Str(py_str(x))

\* url = df.get("webVideoUrl", ...).fillna(""); the id column replaces it only
\* when url is "" in every row
tk_url(df, i) ==
    LET web(k) == fillna(df_get(df, k, "webVideoUrl", Str(<<>>)), Str(<<>>))
    IN  IF (\A k \in 1..Len(df) : web(k) = Str(<<>>)) /\ "id" \in Columns(df)
        THEN astype_str(cell(df, i, "id"))
        ELSE web(i)

\* ts_source = df.get("createTimeISO", None), else df.get("createTime", ...)
tk_ts(df, i) ==
    IF "createTimeISO" \in Columns(df)
    THEN parse_timestamp(cell(df, i, "createTimeISO"))
    ELSE parse_timestamp(df_get(df, i, "createTime", NA))

tk_hashtags(df, i) ==
    LET hashtag_cols == SelectSeq(TkHashtagCols, LAMBDA c : c \in Columns(df))
    IN  IF hashtag_cols = <<>> THEN <<>>
        ELSE join(CommaSpace,
                  join_list_fields([k \in 1..Len(hashtag_cols) |->
                                        cell(df, i, hashtag_cols[k])], TRUE))

\* df.get(c, ...).apply(to_int).fillna(0) at row i
tk_count(df, i, c) == fillna(to_int(df_get(df, i, c, NA)), Num(0)).int

\* row i of the `clean` frame built at lines 133-154
tk_row(df, i, cat, now) ==
    clean_row("tiktok",
              fillna(df_get(df, i, "text", Str(<<>>)), Str(<<>>)),
              fillna(df_get(df, i, "text", Str(<<>>)), Str(<<>>)),
              Str(tk_hashtags(df, i)),
              fillna(df_get(df, i, "authorMeta/name", Str(<<>>)), Str(<<>>)),
              fillna(df_get(df, i, "authorMeta/nickName", Str(<<>>)), Str(<<>>)),
              fillna(to_int(df_get(df, i, "authorMeta/fans", NA)), Num(0)),
              fillna(dt_strftime(tk_ts(df, i)), Str(<<>>)),
              tk_url(df, i),
              tk_count(df, i, "diggCount"),
              tk_count(df, i, "commentCount"),
              tk_count(df, i, "shareCount"),
              tk_count(df, i, "playCount"),
              tk_count(df, i, "collectCount"),
              0,
              clip_lower(fillna(hours_between(now, tk_ts(df, i)), Frac(0, 1)), HoursFloor),
              fillna(df_get(df, i, "musicMeta/musicName", Str(<<>>)), Str(<<>>)),
              cat)

\* clean.replace({np.nan: None, pd.NaT: None}) on one record
replace_nan(r) ==
    [f \in DOMAIN r |-> IF f \in {"platform", "category"} THEN r[f] ELSE nan_to_none(r[f])]

\* now_utc - ts raises TypeError when every parsed timestamp is NaT (see ig_raises)
tk_raises(df) == \A i \in 1..Len(df) : isna(tk_ts(df, i))

\* DEDUP_BY_URL = True
DEDUP_BY_URL == TRUE

\* clean.replace({np.nan: None, pd.NaT: None}) on every record of the frame
replace_nan_all(recs) == [i \in 1..Len(recs) |-> replace_nan(recs[i])]

\* if DEDUP_BY_URL: clean.drop_duplicates(subset=["url"], keep="first")
tk_dedup(clean) == IF DEDUP_BY_URL THEN drop_duplicates(clean) ELSE clean

\* clean_tiktok_df(df, category, now_utc)
clean_tiktok_df(df, cat, now) ==
    IF df_empty(df) THEN <<>>
    ELSE replace_nan_all(tk_dedup([i \in 1..Len(df) |-> tk_row(df, i, cat, now)]))

\* clean_tiktok_items(items, category), given the instant datetime.now returned
clean_tiktok_items(its, cat, now) ==
    IF df_empty(its) THEN <<>>
    ELSE replace_nan_all(clean_tiktok_df(its, cat, now))

----------------------------------------------------------------------------
(* Reddit: clean_reddit_df, clean_reddit_items *)

\* Series.where(cond, other) on one cell
where(x, cond, other) == IF cond THEN x ELSE other

\* caption: title, else displayName, else communityName (first not blank)
rd_caption(df, i) ==
    LET title == astype_str(fillna(df_get(df, i, "title", NA), Str(<<>>)))
        c1 == where(title, strip(title.str) # <<>>,
                    astype_str(fillna(df_get(df, i, "displayName", Str(<<>>)), Str(<<>>))))
    IN  where(c1, strip(c1.str) # <<>>,
              astype_str(fillna(df_get(df, i, "communityName", Str(<<>>)), Str(<<>>))))

\* text: (title.strip() + "\n\n" + body.strip()).strip(), else description
rd_text(df, i) ==
    LET t_title == astype_str(fillna(df_get(df, i, "title", NA), Str(<<>>)))
        t_body == astype_str(fillna(df_get(df, i, "body", NA), Str(<<>>)))
        text == strip(strip(t_title.str) \o <<"\n", "\n">> \o strip(t_body.str))
    IN  where(Str(text), text # <<>>,
              astype_str(fillna(df_get(df, i, "description", NA), Str(<<>>))))

\* url: the url column; where it is missing or blank, the link column (if any)
rd_url(df, i) ==
    LET url == df_get(df, i, "url", NA)
        u1 == IF "link" \in Columns(df)
              THEN where(url, notna(url) /\ strip(py_str(url)) # <<>>, cell(df, i, "link"))
              ELSE url
    IN  astype_str(fillna(u1, Str(<<>>)))

\* ts = createdAt parsed; where that is NaT, scrapedAt parsed (if a column)
rd_created(df, i) == parse_timestamp(df_get(df, i, "createdAt", NA))
rd_ts(df, i) ==
    IF "scrapedAt" \in Columns(df)
    THEN where(rd_created(df, i), ~isna(rd_created(df, i)),
               parse_timestamp(cell(df, i, "scrapedAt")))
    ELSE rd_created(df, i)

\* row i of the `clean` frame built at lines 144-165; likes = upvotes.copy()
rd_row(df, i, cat, now) ==
    clean_row("reddit",
              rd_caption(df, i),
              rd_text(df, i),
              Str(join(CommaSpace,
                       join_tags(<<df_get(df, i, "flair", NA),
                                   df_get(df, i, "communityName", NA)>>))),
              astype_str(fillna(df_get(df, i, "username", NA), Str(<<>>))),
              Str(<<>>),
              NA,
              dt_strftime(rd_ts(df, i)),
              rd_url(df, i),
              fillna(to_int(df_get(df, i, "upVotes", Num(0))), Num(0)).int,
              fillna(to_int(df_get(df, i, "numberOfComments", Num(0))), Num(0)).int,
              0,
              0,
              0,
              fillna(to_int(df_get(df, i, "upVotes", Num(0))), Num(0)).int,
              clip_lower(hours_between(now, rd_ts(df, i)), HoursFloor),
              Str(<<>>),
              cat)

\* When every createdAt parses to NaT the ts column is tz-naive: with no
\* scrapedAt column now_utc - ts raises TypeError.  When exactly one of the
\* createdAt and scrapedAt columns is all NaT, where() mixes a tz-naive and a
\* tz-aware column into an object column and .dt raises AttributeError
rd_raises(df) ==
    \/ \A i \in 1..Len(df) : isna(rd_created(df, i))
    \/ /\ "scrapedAt" \in Columns(df)
       /\ \A i \in 1..Len(df) : isna(parse_timestamp(cell(df, i, "scrapedAt")))

\* clean_reddit_df(df, category, now_utc): no drop_duplicates, no fillna of
\* timestamp, hours_since_post or creator_followers
clean_reddit_df(df, cat, now) == [i \in 1..Len(df) |-> rd_row(df, i, cat, now)]

\* clean_reddit_items(items, category), given the instant datetime.now returned
clean_reddit_items(its, cat, now) ==
    IF df_empty(its) THEN <<>> ELSE replace_nan_all(clean_reddit_df(its, cat, now))

----------------------------------------------------------------------------
(* Inputs drawn *)

\* Largest batch handed to an entry point
MaxBatch == 2

Empty == [k \in {} |-> NA]
\* {k: v}, or {} when the dict lacks the key
Opt(k, v) == IF v = Absent THEN Empty ELSE k :> v

\* The same post instant 2023-11-14T22:13:20Z in three encodings, a later
\* instant, and a string that is no date
TsSeconds == Num(1700000000)
TsMillis == Kilo(1700000000)
TsIso == Str(<<"2","0","2","3","-","1","1","-","1","4","T","2","2",":","1","3",":","2","0","Z">>)
TsLaterIso == Str(<<"2","0","2","3","-","1","1","-","1","5","T","0","0",":","0","0",":","0","0","Z">>)
TsBad == Str(<<"x">>)

\* Instants datetime.now(timezone.utc) may return: 10 s and 1 h after the post
NowValues == {1700000010, 1700003600}

Categories == {"beauty"}

IgUrlItems ==
    { Opt("url", u) @@ Opt("displayUrl", d) @@ Opt("videoUrl", v)
        @@ ("timestamp" :> TsSeconds) @@ ("likesCount" :> Num(3)) :
        u \in {Absent, NA, Str(<<"u">>)},
        d \in {Absent, Str(<<"u">>)},
        v \in {Absent, Str(<<"v">>)} }

IgTsItems ==
    { ("url" :> Str(<<"w">>)) @@ Opt("timestamp", t) :
        t \in {Absent, NA, TsMillis, TsIso, TsLaterIso, TsBad} }

IgCountItems ==
    { ("url" :> Str(<<"c">>)) @@ ("timestamp" :> TsSeconds) @@ ("likesCount" :> l)
        @@ ("commentsCount" :> Num(5)) @@ ("reshareCount" :> Str(<<"1">>)) @@ p :
        l \in {Str(<<"-","5">>), Str(<<"1",",","0","0","0">>)},
        p \in {Empty, "videoPlayCount" :> Num(0), "igPlayCount" :> Num(10),
               "videoPlayCount" :> Str(<<"-","2">>)} }

IgTextItems ==
    { ("url" :> Str(<<"t">>)) @@ ("timestamp" :> TsSeconds) @@ ("caption" :> Str(<<"H","i">>))
        @@ ("ownerUsername" :> Str(<<"o">>)) @@ ("ownerFullName" :> NA)
        @@ ("musicInfo/song_name" :> Str(<<"s">>)) @@ ("fbPlayCount" :> Num(4))
        @@ ("likesCount" :> Str(<<"a","b","c">>))
        @@ ("hashtags/0" :> Str(<<"g","l","o","w">>)) @@ ("hashtags/1" :> h) :
        h \in {NA, Str(<<"#","G","l","o","w">>)} }

IgItems == IgUrlItems \cup IgTsItems \cup IgCountItems \cup IgTextItems \cup {Empty}

TkUrlItems ==
    { Opt("webVideoUrl", u) @@ Opt("id", d)
        @@ ("createTime" :> TsSeconds) @@ ("diggCount" :> Num(3)) :
        u \in {Absent, NA, Str(<<>>), Str(<<"u">>)},
        d \in {Absent, Str(<<"1">>), Str(<<"2">>)} }

TkTsItems ==
    { ("webVideoUrl" :> Str(<<"w">>)) @@ Opt("createTimeISO", t) @@ Opt("createTime", e) :
        t \in {Absent, TsIso, TsLaterIso, TsBad},
        e \in {Absent, TsMillis} }

TkCountItems ==
    { ("webVideoUrl" :> Str(<<"c">>)) @@ ("createTime" :> TsSeconds) @@ ("diggCount" :> l)
        @@ ("commentCount" :> Num(5)) @@ ("shareCount" :> Str(<<"2">>))
        @@ ("collectCount" :> Num(1)) @@ Opt("playCount", p) :
        l \in {Str(<<"-","5">>), Str(<<"1",",","0","0","0">>)},
        p \in {Absent, Num(0), Num(10)} }

TkTextItems ==
    { ("webVideoUrl" :> Str(<<"t">>)) @@ ("createTime" :> TsSeconds) @@ ("text" :> Str(<<"H","i">>))
        @@ ("authorMeta/name" :> Str(<<"o">>)) @@ ("authorMeta/nickName" :> NA)
        @@ ("authorMeta/fans" :> Str(<<"1","2",".","9">>))
        @@ ("musicMeta/musicName" :> Str(<<"s">>)) @@ ("diggCount" :> Str(<<"a","b","c">>))
        @@ ("hashtags/0/name" :> Str(<<"g","l","o","w">>)) @@ ("hashtags/1/name" :> h) :
        h \in {NA, Str(<<"G","l","o","w">>)} }

TkItems == TkUrlItems \cup TkTsItems \cup TkCountItems \cup TkTextItems \cup {Empty}

RdUrlItems ==
    { Opt("url", u) @@ Opt("link", l)
        @@ ("createdAt" :> TsIso) @@ ("upVotes" :> Num(3)) :
        u \in {Absent, Str(<<" ">>), Str(<<"u">>)},
        l \in {Absent, Str(<<"u">>), Str(<<"l">>)} }

RdTsItems ==
    { ("url" :> Str(<<"w">>)) @@ Opt("createdAt", t) @@ Opt("scrapedAt", e) :
        t \in {Absent, NA, TsLaterIso, TsBad},
        e \in {Absent, TsIso} }

RdCaptionItems ==
    { ("url" :> Str(<<"c">>)) @@ ("createdAt" :> TsSeconds) @@ ("title" :> t)
        @@ Opt("displayName", d) @@ Opt("communityName", c) :
        t \in {Str(<<>>), Str(<<"T">>)},
        d \in {Absent, Str(<<"D">>)},
        c \in {Absent, Str(<<"r","/","s">>)} }

RdTextItems ==
    { ("url" :> Str(<<"t">>)) @@ ("createdAt" :> TsMillis) @@ Opt("title", t)
        @@ ("body" :> b) @@ ("description" :> Str(<<"d">>)) @@ ("username" :> Str(<<"o">>))
        @@ ("flair" :> Str(<<"#","S">>)) @@ ("communityName" :> Str(<<"s">>))
        @@ ("upVotes" :> v) @@ ("numberOfComments" :> n) :
        <<t, b, v, n>> \in
            { <<Absent, NA, Str(<<"-","5">>), Str(<<"a","b","c">>)>>,
              <<Str(<<"T">>), Str(<<" ","b">>), Str(<<"1",",","0","0","0">>), Num(5)>> } }

RdItems == RdUrlItems \cup RdTsItems \cup RdCaptionItems \cup RdTextItems \cup {Empty}

Platforms == {"instagram", "tiktok", "reddit"}

\* Batches of at most MaxBatch items
Batches(S) == UNION { [1..n -> S] : n \in 0..MaxBatch }

ItemsOf(p) ==
    IF p = "instagram" THEN IgItems ELSE IF p = "tiktok" THEN TkItems ELSE RdItems

----------------------------------------------------------------------------
(* The service: one call at a time *)

Init ==
    /\ pc = "idle"
    /\ platform = "none"
    /\ items = <<>>
    /\ category = "none"
    /\ now_utc = 0
    /\ rows = <<>>
    /\ vals = <<>>
    /\ joined = None
    /\ arg = None
    /\ result = None

\* A request arrives at one of the batch entry points
Call ==
    /\ pc = "idle"
    /\ platform' \in Platforms
    /\ items' \in Batches(ItemsOf(platform'))
    /\ category' \in Categories
    /\ pc' = "called"
    /\ now_utc' = 0
    /\ rows' = <<>>
    /\ UNCHANGED <<vals, joined, arg, result>>

\* clean_instagram_items runs; it reads the wall clock itself
CleanInstagramItems ==
    /\ pc = "called" /\ platform = "instagram"
    /\ \E now \in NowValues :
          /\ now_utc' = now
          /\ IF ~df_empty(items) /\ ig_raises(items)
             THEN pc' = "raised" /\ rows' = <<>>
             ELSE pc' = "done" /\ rows' = clean_instagram_items(items, category, now)
    /\ UNCHANGED <<platform, items, category, vals, joined, arg, result>>

\* clean_tiktok_items runs; clean_tiktok_df reads the wall clock (now_utc=None)
CleanTiktokItems ==
    /\ pc = "called" /\ platform = "tiktok"
    /\ \E now \in NowValues :
          /\ now_utc' = now
          /\ IF ~df_empty(items) /\ tk_raises(items)
             THEN pc' = "raised" /\ rows' = <<>>
             ELSE pc' = "done" /\ rows' = clean_tiktok_items(items, category, now)
    /\ UNCHANGED <<platform, items, category, vals, joined, arg, result>>

\* clean_reddit_items runs; clean_reddit_df reads the wall clock (now_utc=None)
CleanRedditItems ==
    /\ pc = "called" /\ platform = "reddit"
    /\ \E now \in NowValues :
          /\ now_utc' = now
          /\ IF ~df_empty(items) /\ rd_raises(items)
             THEN pc' = "raised" /\ rows' = <<>>
             ELSE pc' = "done" /\ rows' = clean_reddit_items(items, category, now)
    /\ UNCHANGED <<platform, items, category, vals, joined, arg, result>>

\* The response is sent; the service holds nothing of the call
Return ==
    /\ pc \in {"done", "raised"}
    /\ pc' = "idle"
    /\ platform' = "none"
    /\ items' = <<>>
    /\ category' = "none"
    /\ now_utc' = 0
    /\ rows' = <<>>
    /\ UNCHANGED <<vals, joined, arg, result>>

Next == Call \/ CleanInstagramItems \/ CleanTiktokItems \/ CleanRedditItems \/ Return

Spec == Init /\ [][Next]_vars

----------------------------------------------------------------------------
(* The tag joiners on their own: every pair of values over a small alphabet *)

\* Longest str handed to a joiner
MaxStrLen == 3

TagChars == {"#", " ", "a", "A"}
TagStrings == UNION { [1..n -> TagChars] : n \in 0..MaxStrLen }
TagCells == {NA} \cup { Str(s) : s \in TagStrings }

\* Two values per call, as clean_reddit_df hands join_tags (flair, communityName)
TagInputs == [1..2 -> TagCells]

InitTags ==
    /\ pc = "idle"
    /\ platform = "none"
    /\ items = <<>>
    /\ category = "none"
    /\ now_utc = 0
    /\ rows = <<>>
    /\ vals \in TagInputs
    /\ joined = None
    /\ arg = None
    /\ result = None

JoinHashtags ==
    /\ joined = None
    /\ joined' = joined_of("join_hashtags", TRUE, join_hashtags(vals))
    /\ UNCHANGED <<pc, platform, items, category, now_utc, rows, vals, arg, result>>

JoinListFields ==
    /\ joined = None
    /\ \E strip_hash \in BOOLEAN :
          joined' = joined_of("join_list_fields", strip_hash,
                              join_list_fields(vals, strip_hash))
    /\ UNCHANGED <<pc, platform, items, category, now_utc, rows, vals, arg, result>>

JoinTags ==
    /\ joined = None
    /\ joined' = joined_of("join_tags", TRUE, join_tags(vals))
    /\ UNCHANGED <<pc, platform, items, category, now_utc, rows, vals, arg, result>>

NextTags == JoinHashtags \/ JoinListFields \/ JoinTags

SpecTags == InitTags /\ [][NextTags]_vars

----------------------------------------------------------------------------
(* The coercion helpers on their own: to_int and parse_timestamp of one scalar *)

\* Longest str drawn over the alphabet below
MaxNumLen == 3

NumChars == {"0", "1", ",", ".", "-", " ", "x"}
NumStrings == UNION { [1..n -> NumChars] : n \in 0..MaxNumLen }

\* What to_int is handed: missing, strs, numbers
IntInputs ==
    {NA} \cup { Str(s) : s \in NumStrings }
         \cup { Num(n) : n \in {-7, 0, 3, 1700000000} } \cup {Kilo(1700000000)}

\* What parse_timestamp is handed: missing, ISO and other strs, numeric strs
\* and numbers on both sides of 1e9 and 1e12
TimestampInputs ==
    {NA, TsIso, TsLaterIso, TsBad}
        \cup { Str(s) : s \in { <<"5">>, <<"1", "2", ".", "9">>, <<"9", "9", "9">>,
                                <<"1","7","0","0","0","0","0","0","0","0">>,
                                <<"1","0","0","0","0","0","0","0","0","1">> } }
        \cup { Num(n) : n \in {-7, 0, 5, 999999999, 1000000000, 1000000001, 1700000000} }
        \cup { Kilo(k) : k \in {1000001, 1700000, 1000000000, 1000000001, 1700000000} }

CoerceInputs == IntInputs \cup TimestampInputs

InitCoerce ==
    /\ pc = "idle"
    /\ platform = "none"
    /\ items = <<>>
    /\ category = "none"
    /\ now_utc = 0
    /\ rows = <<>>
    /\ vals = <<>>
    /\ joined = None
    /\ arg \in CoerceInputs
    /\ result = None

ToInt ==
    /\ result = None
    /\ arg \in IntInputs
    /\ result' = [fn |-> "to_int", value |-> to_int(arg)]
    /\ UNCHANGED <<pc, platform, items, category, now_utc, rows, vals, joined, arg>>

ParseTimestamp ==
    /\ result = None
    /\ arg \in TimestampInputs
    /\ result' = [fn |-> "parse_timestamp", value |-> parse_timestamp(arg)]
    /\ UNCHANGED <<pc, platform, items, category, now_utc, rows, vals, joined, arg>>

NextCoerce == ToInt \/ ParseTimestamp

SpecCoerce == InitCoerce /\ [][NextCoerce]_vars

----------------------------------------------------------------------------
(* Claims about the batch entry points *)

Done == pc = "done"
Returned == Done /\ ~df_empty(items)
OutIdx == 1..Len(rows)
InIdx == 1..Len(items)

TextFields == {"caption", "text", "hashtags", "creator", "creator_fullname", "url",
               "audio_name"}
IntFields == {"creator_followers", "likes", "comments", "shares", "plays", "saves",
              "upvotes"}
FloatFields == {"engagement_score", "hours_since_post", "velocity"}

\* The url the called adapter resolves for input record k, before dedup
ResolvedUrl(k) ==
    IF platform = "instagram" THEN fillna(ig_url(items, k), Str(<<>>))
    ELSE IF platform = "tiktok" THEN tk_url(items, k)
    ELSE rd_url(items, k)

\* The first of `keys` the record itself carries with a non-null value
FirstPresent(item, keys) ==
    LET ok == SelectSeq(keys, LAMBDA c : c \in DOMAIN item /\ notna(item[c]))
    IN  IF ok = <<>> THEN NA ELSE item[ok[1]]

\* h >= 0.01 for a fraction h = n/d with d > 0
AtLeastFloor(h) == h.n * HoursFloor.d >= HoursFloor.n * h.d

\* C1: for every adapter and batch the returned records hold exactly one record
\* per distinct resolved url: no two records share a url, and every url resolved
\* from an input record is the url of a returned record.
C1_OneRecordPerUrl ==
    Returned =>
        /\ \A i, j \in OutIdx : i # j => rows[i].url # rows[j].url
        /\ \A k \in InIdx : \E i \in OutIdx : rows[i].url = ResolvedUrl(k)

\* C2: for every adapter and returned record hours_since_post is a number
\* >= 0.01, never missing; it is the floor 0.01 when the record's timestamp is
\* absent or unparseable (its timestamp field is then not a date).
C2_HoursFloor ==
    Returned =>
        \A i \in OutIdx :
            /\ IsFrac(rows[i].hours_since_post)
            /\ AtLeastFloor(rows[i].hours_since_post)
            /\ (rows[i].timestamp \in {Str(<<>>), None}
                    => rows[i].hours_since_post = HoursFloor)

\* C3: for every adapter and batch, negative counts included, every returned
\* record has a finite engagement_score >= 0 and a finite velocity >= 0.
C3_NonNegativeFinite ==
    Returned =>
        \A i \in OutIdx :
            /\ IsFrac(rows[i].engagement_score) /\ rows[i].engagement_score.n >= 0
            /\ IsFrac(rows[i].velocity) /\ rows[i].velocity.n >= 0

\* C4: no field of a returned record holds a missing-value sentinel: timestamp
\* is a YYYY-MM-DDTHH:MM:SSZ string or "", the integer fields are integers,
\* the text fields are strings, the float fields are numbers.
C4_NoMissingSentinel ==
    Returned =>
        \A i \in OutIdx :
            /\ IsStr(rows[i].timestamp)
            /\ rows[i].timestamp.str = <<>> \/ IsIsoShape(rows[i].timestamp.str)
            /\ \A f \in IntFields : IsNum(rows[i][f])
            /\ \A f \in TextFields : IsStr(rows[i][f])
            /\ \A f \in FloatFields : IsFrac(rows[i][f])

\* C5: the Instagram adapter resolves url per record: the first present,
\* non-null value among that record's url, displayUrl, videoUrl, else "".
\* (Row 1 is always built from record 1; without dedup row k is from record k.)
IgUrlPerRecord(item) ==
    fillna(FirstPresent(item, <<"url", "displayUrl", "videoUrl">>), Str(<<>>))
C5_IgUrlPerRecord ==
    (Returned /\ platform = "instagram") =>
        /\ rows[1].url = IgUrlPerRecord(items[1])
        /\ \A k \in InIdx : \E i \in OutIdx : rows[i].url = IgUrlPerRecord(items[k])

\* C6: the TikTok adapter takes each record's timestamp from that record's
\* createTimeISO when present, otherwise from its createTime.
TkTimestampPerRecord(item) ==
    LET src == IF "createTimeISO" \in DOMAIN item /\ notna(item["createTimeISO"])
               THEN item["createTimeISO"]
               ELSE IF "createTime" \in DOMAIN item THEN item["createTime"] ELSE NA
    IN  fillna(dt_strftime(parse_timestamp(src)), Str(<<>>))
C6_TkTimestampPerRecord ==
    (Returned /\ platform = "tiktok" /\ Len(rows) = Len(items)) =>
        \A k \in InIdx : rows[k].timestamp = TkTimestampPerRecord(items[k])

\* C7: dedup in clean_instagram_items and clean_tiktok_df is first-wins, stable
\* and idempotent: with the reference instant fixed, the batch yields the same
\* records, in the same order, as the batch with every later record of an
\* already-seen url removed.  (Left aside: reduced batches on which the call
\* raises, where there are no records to compare.)
FirstOfUrl ==
    LET first == {k \in InIdx : \A j \in 1..(k - 1) : ResolvedUrl(j) # ResolvedUrl(k)}
        pick[k \in 0..Len(items)] ==
            IF k = 0 THEN <<>>
            ELSE IF k \in first THEN Append(pick[k - 1], items[k]) ELSE pick[k - 1]
    IN  pick[Len(items)]
C7_DedupIdempotent ==
    /\ (Returned /\ platform = "instagram" /\ ~ig_raises(FirstOfUrl))
            => rows = clean_instagram_items(FirstOfUrl, category, now_utc)
    /\ (Returned /\ platform = "tiktok" /\ ~tk_raises(FirstOfUrl))
            => rows = clean_tiktok_df(FirstOfUrl, category, now_utc)

\* C8: for every adapter and returned record, with the record's own counts:
\* engagement_score = (likes + 2*comments + 3*shares + 2*saves + upvotes) / denom,
\* denom = plays if plays != 0 else 1, and velocity =
\* (likes + comments + shares + saves + upvotes) / hours_since_post.
C8_MetricFormulas ==
    Returned =>
        \A i \in OutIdx :
            LET r == rows[i]
                weighted == r.likes.int + 2 * r.comments.int + 3 * r.shares.int
                            + 2 * r.saves.int + r.upvotes.int
                total == r.likes.int + r.comments.int + r.shares.int + r.saves.int
                         + r.upvotes.int
                denom == IF r.plays.int # 0 THEN r.plays.int ELSE 1
            IN  /\ r.engagement_score = fdiv(Frac(weighted, 1), Frac(denom, 1))
                /\ IsFrac(r.hours_since_post)
                /\ r.velocity = fdiv(Frac(total, 1), r.hours_since_post)

\* The record's own text under key c: "" where the key is absent or null
OwnText(item, c) ==
    IF c \in DOMAIN item /\ notna(item[c]) THEN py_str(item[c]) ELSE <<>>

\* The first of the record's own texts under `keys` that is not blank; ""
\* when all are blank
FirstNonBlank(item, keys) ==
    LET ok == SelectSeq(keys, LAMBDA c : strip(OwnText(item, c)) # <<>>)
    IN  IF ok = <<>> THEN <<>> ELSE OwnText(item, ok[1])

RedditReturned == Returned /\ platform = "reddit"

\* C13: in the Reddit adapter each record's caption is the first of its title,
\* displayName, communityName that is not blank ("" if none), and its url is
\* its own url unless that is absent, null or blank, in which case it is its
\* own link ("" if that is missing too).
C13_RedditFallbackPerRecord ==
    RedditReturned =>
        /\ Len(rows) = Len(items)
        /\ \A i \in InIdx :
              /\ rows[i].caption
                    = Str(FirstNonBlank(items[i], <<"title", "displayName", "communityName">>))
              /\ rows[i].url
                    = Str(IF strip(OwnText(items[i], "url")) # <<>>
                          THEN OwnText(items[i], "url")
                          ELSE OwnText(items[i], "link"))

----------------------------------------------------------------------------
(* Claims about the coercion helpers *)

ParsedTimestamp == result # None /\ result.fn = "parse_timestamp"
ToIntReturned == result # None /\ result.fn = "to_int"

\* A number, or a str of decimal digits
IsNumericArg(x) ==
    \/ IsNum(x)
    \/ IsKilo(x)
    \/ IsStr(x) /\ x.str # <<>> /\ \A i \in 1..Len(x.str) : IsDigit(x.str[i])

\* The number exceeds 1e12 (only a Kilo can, within 32 bits)
Above1e12(x) == IsKilo(x) /\ x.kilo > 10 ^ 9

\* The number exceeds 1e9
Above1e9(x) ==
    \/ IsKilo(x) /\ x.kilo > 10 ^ 6
    \/ IsNum(x) /\ x.int > 10 ^ 9
    \/ IsStr(x) /\ digits_value(x.str) > 10 ^ 9

\* The instant x seconds after the epoch; missing beyond Timestamp.max
\* (9223372036 s)
AsUnixSeconds(x) ==
    IF IsKilo(x) THEN (IF x.kilo > 9223372 THEN NA ELSE Ts(1000 * x.kilo))
    ELSE IF IsNum(x) THEN Ts(x.int)
    ELSE Ts(digits_value(x.str))

\* The instant x milliseconds after the epoch
AsUnixMillis(x) == Ts(x.kilo)

\* C11: parse_timestamp classifies a numeric input by magnitude: above 1e12 it
\* is Unix milliseconds, otherwise above 1e9 it is Unix seconds, and a numeric
\* value of at most 1e9 resolves to missing; a missing input returns missing.
C11_MagnitudeClasses ==
    ParsedTimestamp =>
        /\ isna(arg) => result.value = NA
        /\ (IsNumericArg(arg) /\ Above1e12(arg)) => result.value = AsUnixMillis(arg)
        /\ (IsNumericArg(arg) /\ ~Above1e12(arg) /\ Above1e9(arg))
               => result.value = AsUnixSeconds(arg)
        /\ (IsNumericArg(arg) /\ ~Above1e9(arg)) => result.value = NA

\* str s without its commas
WithoutCommas(s) == SelectSeq(s, LAMBDA c : c # ",")

\* str s without leading and trailing whitespace
Trimmed(s) ==
    LET inked == {i \in 1..Len(s) : s[i] \notin Whitespace}
    IN  IF inked = {} THEN <<>>
        ELSE SubSeq(s, CHOOSE i \in inked : \A j \in inked : i <= j,
                       CHOOSE i \in inked : \A j \in inked : j <= i)

\* The integer a decimal text b (sign removed) denotes, truncated toward zero:
\* digits with at most one point and at least one digit; missing otherwise
UnsignedValue(b, negative) ==
    LET points == {i \in 1..Len(b) : b[i] = "."}
        digits == {i \in 1..Len(b) : IsDigit(b[i])}
        whole == {i \in digits : \A q \in points : i < q}
    IN  IF points \cup digits = 1..Len(b) /\ Cardinality(points) <= 1 /\ digits # {}
        THEN Num((IF negative THEN -1 ELSE 1) * digits_value(SubSeq(b, 1, Cardinality(whole))))
        ELSE NA

SignedValue(t) ==
    IF t # <<>> /\ t[1] \in {"+", "-"} THEN UnsignedValue(Tail(t), t[1] = "-")
    ELSE UnsignedValue(t, FALSE)

\* What to_int is to return
ExpectedInt(x) ==
    IF isna(x) THEN NA
    ELSE IF IsStr(x) THEN SignedValue(Trimmed(WithoutCommas(x.str)))
    ELSE x

\* '1,234' gives 1234, '12.9' gives 12, '-0.5' gives 0; missing and 'x' give
\* missing, which is not 0 until fillna(0)
ToIntExample ==
    /\ to_int(Str(<<"1", ",", "2", "3", "4">>)) = Num(1234)
    /\ to_int(Str(<<"1", "2", ".", "9">>)) = Num(12)
    /\ to_int(Str(<<"-", "0", ".", "5">>)) = Num(0)
    /\ to_int(NA) = NA
    /\ to_int(Str(<<"x">>)) = NA
    /\ NA # Num(0)
    /\ fillna(to_int(Str(<<"x">>)), Num(0)) = Num(0)

\* C12: to_int is total: for a number or a numeric str (commas and surrounding
\* whitespace removed) it returns the value truncated toward zero, for a
\* missing or unparseable input it returns missing, never 0 in its place.
C12_ToIntTotal ==
    /\ ToIntReturned =>
          /\ result.value = ExpectedInt(arg)
          /\ isna(result.value) \/ IsNum(result.value) \/ IsKilo(result.value)
    /\ ToIntExample

\* C12 witness: a str with a comma and a fraction was coerced, and an
\* unparseable one gave missing
C12_Witness ==
    /\ ToIntReturned
    /\ \/ arg = Str(<<"1", ",", "1">>) /\ result.value = Num(11)
       \/ arg = Str(<<"1", ".", "1">>) /\ result.value = Num(1)
    /\ to_int(Str(<<"1", "x">>)) = NA

----------------------------------------------------------------------------
(* Claims about the tag joiners *)

\* A joiner that strips "#" has returned
JoinedStripped == joined # None /\ joined.strip_hash

\* The values a joiner keeps: not missing, not blank
KeptIdx == {i \in 1..Len(vals) : notna(vals[i]) /\ strip(py_str(vals[i])) # <<>>}

\* s without its leading run of "#": the suffix from the first other character
WithoutLeadingHashes(s) ==
    LET other == {i \in 1..Len(s) : s[i] # "#"}
    IN  IF other = {} THEN <<>>
        ELSE SubSeq(s, CHOOSE i \in other : \A j \in other : i <= j, Len(s))

\* The tag of kept value i: trimmed, then "#"-stripped
TagOf(i) == WithoutLeadingHashes(strip(py_str(vals[i])))

\* The kept values whose tag no earlier kept value has, ignoring case
FirstSeenIdx ==
    {i \in KeptIdx : \A j \in KeptIdx : j < i => lower(TagOf(j)) # lower(TagOf(i))}

\* The k-th smallest element of a set of naturals
RECURSIVE Nth(_, _)
Nth(S, k) ==
    LET m == CHOOSE x \in S : \A y \in S : x <= y
    IN  IF k = 1 THEN m ELSE Nth(S \ {m}, k - 1)

Skincare == Str(<<"S","k","i","n","c","a","r","e">>)
HashSkincare == Str(<<"#","s","k","i","n","c","a","r","e">>)
Makeup == Str(<<"M","a","k","e","u","p">>)
SkincareMakeup == <<"S","k","i","n","c","a","r","e",",", " ","M","a","k","e","u","p">>
Glow == <<"g","l","o","w">>

\* The examples of the tag de-duplication: 'Skincare', '#skincare', 'Makeup'
\* and 'glow', 'Glow'
SkincareExample ==
    /\ join(CommaSpace, join_tags(<<Skincare, HashSkincare, Makeup>>)) = SkincareMakeup
    /\ join(CommaSpace, join_hashtags(<<Skincare, HashSkincare, Makeup>>)) = SkincareMakeup
    /\ join(CommaSpace, join_list_fields(<<Skincare, HashSkincare, Makeup>>, TRUE))
           = SkincareMakeup
    /\ join_list_fields(<<Str(Glow), Str(<<"G","l","o","w">>)>>, TRUE) = <<Glow>>

\* '##glow' through each joiner leaves the tag 'glow'
GlowExample ==
    /\ join_tags(<<Str(<<"#","#">> \o Glow)>>) = <<Glow>>
    /\ join_hashtags(<<Str(<<"#","#">> \o Glow)>>) = <<Glow>>
    /\ join_list_fields(<<Str(<<"#","#">> \o Glow)>>, TRUE) = <<Glow>>

\* C9: a "#"-stripping joiner returns the non-missing non-blank values trimmed and
\* "#"-stripped, de-duplicated ignoring case, in first-seen order and casing,
\* joined by ", ": no two result tags are equal ignoring case, every input tag
\* equals some result tag ignoring case, and 'Skincare', '#skincare', 'Makeup'
\* gives 'Skincare, Makeup'.
C9_TagsDeduplicated ==
    /\ JoinedStripped =>
          /\ \A i, j \in 1..Len(joined.tags) :
                i # j => lower(joined.tags[i]) # lower(joined.tags[j])
          /\ \A i \in KeptIdx : \E j \in 1..Len(joined.tags) :
                lower(joined.tags[j]) = lower(TagOf(i))
          /\ Len(joined.tags) = Cardinality(FirstSeenIdx)
          /\ \A k \in 1..Len(joined.tags) : joined.tags[k] = TagOf(Nth(FirstSeenIdx, k))
          /\ joined.text = join(<<",", " ">>, joined.tags)
    /\ SkincareExample

\* C9 witness: two kept values that differ as written and agree ignoring case
\* and "#", collapsed to the first
C9_Witness ==
    /\ JoinedStripped
    /\ KeptIdx = {1, 2}
    /\ strip(py_str(vals[1])) # strip(py_str(vals[2]))
    /\ TagOf(1) # TagOf(2)
    /\ joined.tags = <<TagOf(1)>>

\* C10 as stated: each value loses exactly one leading "#": a value beginning
\* with two or more keeps all but the first ('##glow' gives '#glow'), a value
\* with none is unchanged apart from trimming.  The first kept value is always
\* the first tag.
ExactlyOneHashStripped(s) == IF s # <<>> /\ s[1] = "#" THEN Tail(s) ELSE s
C10_StripsExactlyOne ==
    (JoinedStripped /\ KeptIdx # {}) =>
        joined.tags[1] = ExactlyOneHashStripped(strip(py_str(vals[Nth(KeptIdx, 1)])))

\* C10 amended: each value loses every leading "#" ('##glow' gives 'glow'); a
\* value with no leading "#" is unchanged apart from trimming.
C10_StripsAllLeading ==
    /\ (JoinedStripped /\ KeptIdx # {}) =>
          LET t == strip(py_str(vals[Nth(KeptIdx, 1)]))
          IN  /\ joined.tags[1] = WithoutLeadingHashes(t)
              /\ t[1] # "#" => joined.tags[1] = t
    /\ JoinedStripped =>
          \A k \in 1..Len(joined.tags) : joined.tags[k] = <<>> \/ joined.tags[k][1] # "#"
    /\ GlowExample

\* C10 witness: a kept value beginning with two "#" and more after them
C10_Witness ==
    /\ JoinedStripped
    /\ 1 \in KeptIdx
    /\ LET t == strip(py_str(vals[1]))
       IN  Len(t) = 3 /\ t[1] = "#" /\ t[2] = "#" /\ t[3] = "a"
    /\ joined.tags[1] = <<"a">>

----------------------------------------------------------------------------
(* Claims about failure isolation, the wall clock and records without url *)

\* The call has ended, with records or with an exception
Ended == pc \in {"done", "raised"} /\ ~df_empty(items)

\* The source keys the adapters coerce with to_int, and the field each feeds
CountField ==
    [likesCount |-> "likes", commentsCount |-> "comments", reshareCount |-> "shares",
     videoPlayCount |-> "plays", igPlayCount |-> "plays", fbPlayCount |-> "plays",
     diggCount |-> "likes", commentCount |-> "comments", shareCount |-> "shares",
     playCount |-> "plays", collectCount |-> "saves",
     upVotes |-> "upvotes", numberOfComments |-> "comments"]

\* The source keys the adapters parse with parse_timestamp
TimestampKeys == {"timestamp", "createTimeISO", "createTime", "createdAt", "scrapedAt"}

\* A str no number can be read from
IsBadCount(v) == IsStr(v) /\ ExpectedInt(v) = NA

\* A str that is no date and no number
IsBadTimestamp(v) == v = TsBad

\* Record i carries a value under key k that cannot be coerced
IsBadAt(i, k) ==
    /\ k \in DOMAIN items[i]
    /\ \/ k \in DOMAIN CountField /\ IsBadCount(items[i][k])
       \/ k \in TimestampKeys /\ IsBadTimestamp(items[i][k])

\* The batch with key k absent from record i
BatchWithout(i, k) ==
    [items EXCEPT ![i] = [c \in DOMAIN items[i] \ {k} |-> items[i][c]]]

\* Whether the called entry point raises on batch `its`, and what it returns
RaisesOn(its) ==
    /\ ~df_empty(its)
    /\ IF platform = "instagram" THEN ig_raises(its)
       ELSE IF platform = "tiktok" THEN tk_raises(its)
       ELSE rd_raises(its)

ReturnsOn(its, now) ==
    IF platform = "instagram" THEN clean_instagram_items(its, category, now)
    ELSE IF platform = "tiktok" THEN clean_tiktok_items(its, category, now)
    ELSE clean_reddit_items(its, category, now)

\* C14: a record's uncoercible count or unparseable timestamp never aborts the
\* batch: the call returns; where every input record is returned, that
\* record's affected field is 0 (count) or "" (timestamp, when the record has
\* no other timestamp key), and every other record is what it is when the bad
\* value is absent.
C14_FailureIsolated ==
    Ended =>
        \A i \in InIdx : \A k \in DOMAIN CountField \cup TimestampKeys :
            IsBadAt(i, k) =>
                /\ pc = "done"
                /\ Len(rows) = Len(items) =>
                      /\ k \in DOMAIN CountField => rows[i][CountField[k]] = Num(0)
                      /\ (k \in TimestampKeys /\ DOMAIN items[i] \cap TimestampKeys = {k})
                            => rows[i].timestamp = Str(<<>>)
                      /\ ~RaisesOn(BatchWithout(i, k)) =>
                            \A j \in InIdx \ {i} :
                                /\ j <= Len(ReturnsOn(BatchWithout(i, k), now_utc))
                                /\ rows[j] = ReturnsOn(BatchWithout(i, k), now_utc)[j]

\* C15: each batch entry point is a function of its batch, its category and
\* an injected reference instant, independent of the wall clock: whatever
\* instant the clock shows during the call, the same batch and category give
\* the same records, hours_since_post and velocity included.
C15_WallClockIndependent ==
    Returned => \A now \in NowValues : rows = ReturnsOn(items, now)

\* The input records whose url the adapter resolves to ""
NoUrlIdx == {k \in InIdx : ResolvedUrl(k) = Str(<<>>)}

\* The returned records whose url is ""
NoUrlRows == {i \in OutIdx : rows[i].url = Str(<<>>)}

\* The record the adapter builds from input record k alone, as returned
RecordOf(k) ==
    IF platform = "instagram" THEN ig_finalize(ig_row(items, k, category, now_utc))
    ELSE replace_nan(tk_row(items, k, category, now_utc))

\* Some record of the batch has a webVideoUrl that is not empty
SomeWebVideoUrl == \E k \in InIdx : OwnText(items[k], "webVideoUrl") # <<>>

\* C16: in the Instagram and TikTok adapters the records whose url resolves to
\* "" count as one url: at most one returned record has url "", it is the one
\* built from the first such input record, and it is there whenever there is
\* such an input record; in TikTok a record without webVideoUrl resolves to ""
\* in spite of its id unless webVideoUrl is empty in every record of the batch.
C16_NoUrlRecordsCollapse ==
    (Returned /\ platform \in {"instagram", "tiktok"}) =>
        /\ Cardinality(NoUrlRows) <= 1
        /\ NoUrlIdx # {} <=> NoUrlRows # {}
        /\ \A i \in NoUrlRows :
              rows[i] = RecordOf(CHOOSE k \in NoUrlIdx : \A m \in NoUrlIdx : k <= m)
        /\ (platform = "tiktok" /\ SomeWebVideoUrl) =>
              \A k \in InIdx : OwnText(items[k], "webVideoUrl") = <<>> => k \in NoUrlIdx

\* C16 witness: two different records without url, the second with likes, were
\* given and only the first was returned
C16_Witness ==
    /\ Returned /\ platform \in {"instagram", "tiktok"}
    /\ NoUrlIdx = {1, 2}
    /\ RecordOf(1) # RecordOf(2)
    /\ rows = <<RecordOf(1)>>

====
